---------------------------- MODULE Spec2Model ----------------------------
(***************************************************************************)
(* VocalWeaver: the WebSocket voice-changer server of main.py.             *)
(*                                                                         *)
(* One handler coroutine (websocket_endpoint) runs per connection.  The    *)
(* coroutine gives up control only at its awaits (accept, send_json,       *)
(* receive_json, close); the code between two awaits, the whole            *)
(* decode/transcribe/synthesize pipeline included, runs without            *)
(* interruption.  Every action below is one such stretch of the handler,   *)
(* or one step of a client.  startup_event, which fills the voice          *)
(* registry from the voices directory, is one action as well: the server   *)
(* serves no connection before it has returned.                            *)
(*                                                                         *)
(* The desktop application of voice_changer_app.py scans the same kind of  *)
(* directory when it starts, and runs process_voice in a thread of its own *)
(* for every click on its record button; an action is a step of one such   *)
(* thread.                                                                 *)
(*                                                                         *)
(* Strings are modelled as sequences: a text is a sequence of characters,  *)
(* a byte string a sequence of 3-byte chunks, a base64 string a sequence   *)
(* of character groups (a full group has 4 characters and decodes to one   *)
(* chunk).                                                                 *)
(***************************************************************************)
EXTENDS Naturals, Sequences, FiniteSets, TLC

\* Number of client connections.
NumSessions == 2
\* Messages all clients together send over the run.
MaxRequests == 2
\* Clients that disconnect over the run.
MaxDisconnects == 1
\* Files of the voices directory.
MaxFiles == 4
\* Clicks on the record button of the desktop application.
MaxClicks == 2

Sessions == 1..NumSessions

\* Every click that starts a workflow starts a thread.
Threads == 1..MaxClicks

VARIABLES
    tts_voices,             \* main.py:21  display name -> loaded voice
    available_voices_info,  \* main.py:22  display name -> base file name
    debug_files,            \* the files of DEBUG_FOLDER, shared by all sessions
    pc,                     \* where each handler stands
    client,                 \* "open" or "gone": has the client disconnected
    inbox,                  \* frames received and not yet read by receive_json
    sent,                   \* what the handler passed to send_json, in order
    delivered,              \* how many of them reached the client
    closeCode,              \* code of websocket.close (0: not called)
    closeReason,            \* reason of websocket.close
    exc,                    \* the exception that ended the handler
    voice,                  \* local of websocket_endpoint
    audio_b64,              \* local of websocket_endpoint
    transcribed_text,       \* local of websocket_endpoint
    reqs,                   \* history: the requests that entered the pipeline
    synthCalls,             \* history: arguments of synthesize_speech_stream
    leftDuring,             \* history: request in flight when the client left
    nsent,                  \* history: messages sent by all clients
    ngone,                  \* history: clients that have disconnected
    running,                \* the session whose synchronous pipeline call
                            \* occupies the event loop (0: none)
    lifespan,               \* "startup", "complete", or the error that
                            \* ended startup_event
    voices_dir,             \* VOICES_DIR: whether it exists, and its files
    available_voices,       \* voice_changer_app.py:59  self.available_voices
    record_button,          \* state of self.record_button ("none": no App)
    workflow,               \* where each process_voice thread stands
    current_voice_name,     \* voice_changer_app.py:21
    app_files               \* the temporary files of the application

vars == <<tts_voices, available_voices_info, debug_files, pc, client, inbox,
          sent, delivered, closeCode, closeReason, exc, voice, audio_b64,
          transcribed_text, reqs, synthCalls, leftDuring, nsent, ngone,
          running, lifespan, voices_dir, available_voices, record_button,
          workflow, current_voice_name, app_files>>

registry == <<tts_voices, available_voices_info>>

startup == <<lifespan, voices_dir>>

desktop ==
    <<available_voices, record_button, workflow, current_voice_name,
      app_files>>

connections ==
    <<debug_files, pc, client, inbox, sent, delivered, closeCode, closeReason,
      exc, voice, audio_b64, transcribed_text, reqs, synthCalls, leftDuring,
      nsent, ngone, running>>

-----------------------------------------------------------------------------
(* Python values *)

\* None, as message.get returns it for a missing key.
None == [t |-> "none"]
Str(x) == [t |-> "str", v |-> x]

\* dict.get(key) on a decoded JSON object.
Get(message, key) ==
    IF key \in DOMAIN message THEN Str(message[key]) ELSE None

\* Python truthiness of an optional string: None and "" are false.
Truthy(x) == x.t = "str" /\ x.v # <<>>

\* str.strip(): surrounding whitespace removed.
RECURSIVE LStrip(_)
LStrip(t) == IF t # <<>> /\ Head(t) = " " THEN LStrip(Tail(t)) ELSE t

RECURSIVE RStrip(_)
RStrip(t) ==
    IF t # <<>> /\ t[Len(t)] = " " THEN RStrip(SubSeq(t, 1, Len(t) - 1)) ELSE t

Strip(t) == LStrip(RStrip(t))

\* "".join(segment.text for segment in segments)
RECURSIVE Join(_)
Join(segs) == IF segs = <<>> THEN <<>> ELSE Head(segs) \o Join(Tail(segs))

-----------------------------------------------------------------------------
(* base64 *)

\* The 4-character groups used here and the 3 bytes each stands for.
B64Groups ==
    [Y29y |-> "cor", c2ls |-> "sil", b25l |-> "one", dHdv |-> "two",
     dGhy |-> "thr", Zm91 |-> "fou", UklG |-> "RIF", YW15 |-> "amy",
     am9l |-> "joe", YW1h |-> "ama", aGZj |-> "hfc", ZW5h |-> "ena",
     dXNh |-> "usa", YW0y |-> "am2"]

\* base64.b64decode raises binascii.Error ("Incorrect padding") when a group
\* is not complete.
B64Valid(s) == \A i \in DOMAIN s : s[i] \in DOMAIN B64Groups

B64Decode(s) == [i \in DOMAIN s |-> B64Groups[s[i]]]

B64Encode(b) ==
    [i \in DOMAIN b |-> CHOOSE g \in DOMAIN B64Groups : B64Groups[g] = b[i]]

-----------------------------------------------------------------------------
(* The collaborators: pydub/ffmpeg, Whisper, Piper *)

\* AudioSegment.from_file(..., format="webm") and the export to WAV succeed
\* on a recording and raise on bytes that are no audio container.
Convertible(bytes) == bytes # <<>> /\ bytes[1] # "cor"

\* The WAV the conversion produces: mono, 16 kHz.
ConvertToWav(bytes) == <<"RIF">> \o bytes

\* The segments Whisper returns for a WAV, when it returns: none for an empty
\* recording, a blank one for silence, the spoken word after a blank otherwise.
Segments(wav) ==
    IF Len(wav) < 2 THEN <<>>
    ELSE IF wav[2] = "sil" THEN << <<" ">> >>
    ELSE << <<" ">>, <<wav[2]>>, <<" ">> >>

\* PiperVoice.synthesize, when it returns: the WAV of text spoken by voice.
SynthesizeWav(text, handle) == <<"RIF", handle>> \o text

-----------------------------------------------------------------------------
(* Protocol messages *)

\* Faulty variant: the catalog is built before the registry is filled.
CatalogMessage_unfilled == [type |-> "voices", data |-> <<>>]

\* main.py:119
CatalogMessage == [type |-> "voices", data |-> available_voices_info.keys]

\* main.py:127
StatusReceived == [type |-> "status", message |-> "Received audio. Transcribing..."]

\* main.py:131
StatusSynthesizing == [type |-> "status", message |-> "Synthesizing new voice..."]

\* main.py:134
ResultMessage(text, b64) == [type |-> "result", text |-> text, audio |-> Str(b64)]

\* main.py:136
NoSpeechResult ==
    [type |-> "result", text |-> <<"No speech detected.">>, audio |-> None]

-----------------------------------------------------------------------------
(* File names *)

\* A file name is the sequence of its words and separators; no code of the
\* program splits a name inside one of them.  The base names of voice packs:
en_US_amy_medium == <<"en", "_", "US", "-", "amy", "-", "medium">>
es_US_amy_medium == <<"es", "_", "US", "-", "amy", "-", "medium">>
en_GB_joe_low == <<"en", "_", "GB", "-", "joe", "-", "low">>
en_US_hfc_female_medium ==
    <<"en", "_", "US", "-", "hfc", "_", "female", "-", "medium">>
en_amy_medium == <<"en", "-", "amy", "-", "medium">>
en_US_amy == <<"en", "_", "US", "-", "amy">>
\* the pack whose model file is en_US-amy-medium.onnx.onnx
en_US_amy_medium_onnx == en_US_amy_medium \o <<".onnx">>

BaseNames ==
    {en_US_amy_medium, es_US_amy_medium, en_US_hfc_female_medium,
     en_amy_medium, en_US_amy, en_US_amy_medium_onnx}

\* The model file of a pack and its configuration file.
ModelFile(base_name) == base_name \o <<".onnx">>
ConfigFile(base_name) == base_name \o <<".onnx", ".json">>

\* Every file a voices directory may hold.
VoiceFiles ==
    {ModelFile(b) : b \in BaseNames} \cup {ConfigFile(b) : b \in BaseNames}

-----------------------------------------------------------------------------
(* The voice registry after startup *)

\* The display name startup_event derives for en_US-amy-medium and for
\* en_GB-joe-low: f"{name} ({lang_region}, {quality})".
AmyName == <<"Amy", " (", "US", ", ", "medium", ")">>
JoeName == <<"Joe", " (", "GB", ", ", "low", ")">>

\* A name no pack of the voices directory derives.
UnknownName == <<"Bob", " (", "US", ", ", "high", ")">>

\* tts_voices once startup_event has loaded the packs of the voices
\* directory, in sorted file order.  A dict is its keys in insertion order
\* and its values.
LoadedVoices ==
    [keys |-> <<JoeName, AmyName>>,
     val  |-> [n \in {AmyName, JoeName} |-> IF n = AmyName THEN "amy" ELSE "joe"]]

\* available_voices_info after the same loop.
LoadedVoicesInfo ==
    [keys |-> <<JoeName, AmyName>>,
     val  |-> [n \in {AmyName, JoeName} |->
                 IF n = AmyName THEN en_US_amy_medium ELSE en_GB_joe_low]]

\* key in dict
HasKey(dict, k) == \E i \in DOMAIN dict.keys : dict.keys[i] = k

\* {}
EmptyDict == [keys |-> <<>>, val |-> <<>>]

\* dict[k] = v: a new key goes last, a known key keeps its place.
Put(dict, k, v) ==
    [keys |-> IF HasKey(dict, k) THEN dict.keys ELSE Append(dict.keys, k),
     val  |-> [n \in (DOMAIN dict.val) \cup {k} |->
                 IF n = k THEN v ELSE dict.val[n]]]

-----------------------------------------------------------------------------
(* str methods *)

\* s.endswith(suffix), the suffix one separator
EndsWith(s, suffix) == s # <<>> /\ s[Len(s)] = suffix

\* s.replace(old, new): every occurrence of the separator old
RECURSIVE Replace(_, _, _)
Replace(s, old, new) ==
    IF s = <<>> THEN <<>>
    ELSE (IF Head(s) = old THEN new ELSE <<Head(s)>>)
         \o Replace(Tail(s), old, new)

\* s.split(sep): the parts between the separators, at least one
RECURSIVE Split(_, _)
Split(s, sep) ==
    IF \A i \in DOMAIN s : s[i] # sep THEN <<s>>
    ELSE LET i == CHOOSE i \in DOMAIN s :
                     s[i] = sep /\ \A j \in 1..(i - 1) : s[j] # sep
         IN  <<SubSeq(s, 1, i - 1)>> \o Split(SubSeq(s, i + 1, Len(s)), sep)

\* word.title() of one word: first letter upper case, the others lower case
TitleWord(word) ==
    CASE word = "amy" -> "Amy"
      [] word = "joe" -> "Joe"
      [] word = "hfc" -> "Hfc"
      [] word = "female" -> "Female"
      [] word = "medium" -> "Medium"
      [] word = "low" -> "Low"
      [] word = "en" -> "En"
      [] word = "es" -> "Es"
      [] word = "US" -> "Us"
      [] word = "GB" -> "Gb"
      [] OTHER -> word

\* s.title(): every word of s
Title(s) == [i \in DOMAIN s |-> TitleWord(s[i])]

\* The words and separators in the order of their first differing code
\* points ('-' < '.' < upper case < '_' < lower case).  None is a prefix of
\* another, so comparing names word by word is comparing them as str.
CodeOrder ==
    <<"-", ".json", ".onnx", "GB", "US", "_", "amy", "en", "es", "female",
      "hfc", "joe", "low", "medium">>

Rank(word) == CHOOSE i \in DOMAIN CodeOrder : CodeOrder[i] = word

\* a < b on str
RECURSIVE StrLess(_, _)
StrLess(a, b) ==
    IF a = <<>> THEN b # <<>>
    ELSE IF b = <<>> THEN FALSE
    ELSE IF Head(a) = Head(b) THEN StrLess(Tail(a), Tail(b))
    ELSE Rank(Head(a)) < Rank(Head(b))

\* Faulty variant: the listing is taken in the order the system returns it.
Sorted_asListed(listing) == listing

\* sorted(listing), the names of a listing being distinct
RECURSIVE Sorted(_)
Sorted(listing) ==
    IF listing = <<>> THEN <<>>
    ELSE LET m == CHOOSE i \in DOMAIN listing :
                     \A j \in DOMAIN listing :
                         j # i => StrLess(listing[i], listing[j])
         IN  <<listing[m]>>
             \o Sorted(SubSeq(listing, 1, m - 1)
                       \o SubSeq(listing, m + 1, Len(listing)))

-----------------------------------------------------------------------------
(* Voice discovery *)

\* Faulty variant: the language is taken for the region.
FriendlyName_language(base_name) ==
    LET parts == Split(base_name, "-")
        lang == Split(parts[1], "_")
    IN  IF Len(lang) < 2 \/ Len(parts) < 3
        THEN base_name
        ELSE Title(Replace(parts[2], "_", <<" ">>))
             \o <<" (">> \o lang[1] \o <<", ">> \o parts[3] \o <<")">>

\* main.py:50-56  the display name of a pack.  parts[0].split('_')[1],
\* parts[1] and parts[2] raise IndexError when the part is missing (the
\* indices of Python count from 0, those below from 1).
FriendlyName(base_name) ==
    LET parts == Split(base_name, "-")
        lang == Split(parts[1], "_")
    IN  IF Len(lang) < 2 \/ Len(parts) < 3
        THEN base_name
        ELSE Title(Replace(parts[2], "_", <<" ">>))
             \o <<" (">> \o lang[2] \o <<", ">> \o parts[3] \o <<")">>

\* main.py:47  base_name = file.replace(".onnx", ""): every ".onnx" of the
\* name is removed, not only the extension
BaseName(file) == Replace(file, ".onnx", <<>>)

\* main.py:46-49  a model file whose configuration file exists
IsVoicePack(file, files) ==
    EndsWith(file, ".onnx") /\ ConfigFile(BaseName(file)) \in files

\* PiperVoice.load, when it returns: the voice the model file holds, named by
\* three bytes of the audio it produces.
PiperVoiceLoad(model_path) ==
    CASE model_path = ModelFile(en_US_amy_medium) -> "amy"
      [] model_path = ModelFile(en_GB_joe_low) -> "joe"
      [] model_path = ModelFile(es_US_amy_medium) -> "ama"
      [] model_path = ModelFile(en_US_hfc_female_medium) -> "hfc"
      [] model_path = ModelFile(en_amy_medium) -> "ena"
      [] model_path = ModelFile(en_US_amy) -> "usa"
      [] model_path = ModelFile(en_US_amy_medium_onnx) -> "am2"

\* Faulty variant: available_voices_info is keyed by the base name.
RECURSIVE LoadVoices_infoByBaseName(_, _, _, _)
LoadVoices_infoByBaseName(listing, files, broken, acc) ==
    IF listing = <<>> \/ acc.raised # "none" THEN acc
    ELSE LET file == Head(listing)
             friendly_name == FriendlyName(BaseName(file))
         IN  IF ~IsVoicePack(file, files)
             THEN LoadVoices_infoByBaseName(Tail(listing), files, broken, acc)
             ELSE IF file \in broken
             THEN [acc EXCEPT !.raised = "PiperVoice.load failed"]
             ELSE LoadVoices_infoByBaseName(Tail(listing), files, broken,
                    [raised |-> "none",
                     tts  |-> Put(acc.tts, friendly_name, PiperVoiceLoad(file)),
                     info |-> Put(acc.info, BaseName(file), BaseName(file))])

\* main.py:45-61  the loop of startup_event over the sorted listing, acc the
\* two dicts so far.  PiperVoice.load raises on the models of broken, and
\* the loop ends there.
RECURSIVE LoadVoices(_, _, _, _)
LoadVoices(listing, files, broken, acc) ==
    IF listing = <<>> \/ acc.raised # "none" THEN acc
    ELSE LET file == Head(listing)
             friendly_name == FriendlyName(BaseName(file))
         IN  IF ~IsVoicePack(file, files)
             THEN LoadVoices(Tail(listing), files, broken, acc)
             ELSE IF file \in broken
             THEN [acc EXCEPT !.raised = "PiperVoice.load failed"]
             ELSE LoadVoices(Tail(listing), files, broken,
                    [raised |-> "none",
                     tts  |-> Put(acc.tts, friendly_name, PiperVoiceLoad(file)),
                     info |-> Put(acc.info, friendly_name, BaseName(file))])

\* main.py:33-62  startup_event on directory dir, os.listdir returning
\* listing, WhisperModel ending as stt_load.
StartupEventResult(dir, listing, stt_load, broken, tts, info) ==
    IF stt_load = "raise"
    THEN [raised |-> "WhisperModel failed", tts |-> tts, info |-> info]
    ELSE IF ~dir.exists
    THEN [raised |-> "The voices directory 'voices' was not found.",
          tts |-> tts, info |-> info]
    ELSE LoadVoices(Sorted(listing), dir.files, broken,
                    [raised |-> "none", tts |-> tts, info |-> info])

\* voice_changer_app.py:91-107  the loop of scan_for_voices
RECURSIVE ScanVoices(_, _, _)
ScanVoices(listing, files, voices) ==
    IF listing = <<>> THEN voices
    ELSE LET file == Head(listing)
         IN  IF ~IsVoicePack(file, files)
             THEN ScanVoices(Tail(listing), files, voices)
             ELSE ScanVoices(Tail(listing), files,
                    Put(voices, FriendlyName(BaseName(file)),
                        [model |-> file, config |-> ConfigFile(BaseName(file))]))

\* voice_changer_app.py:84-109  scan_for_voices
ScanForVoices(dir, listing) ==
    IF ~dir.exists THEN EmptyDict
    ELSE ScanVoices(Sorted(listing), dir.files, EmptyDict)

\* The model files of files that the loops take for a voice pack.
Packs(files) == {f \in files : IsVoicePack(f, files)}

\* os.listdir returns the names in the order the file system keeps them,
\* which is no order of the names: here the order the files were copied in
\* (the packs one after the other, or all models before all configuration
\* files), or the reverse of it.
CopyOrders ==
    LET bases == <<en_US_hfc_female_medium, es_US_amy_medium, en_GB_joe_low,
                   en_US_amy, en_US_amy_medium_onnx, en_US_amy_medium,
                   en_amy_medium>>
        models == [i \in DOMAIN bases |-> ModelFile(bases[i])]
        configs == [i \in DOMAIN bases |-> ConfigFile(bases[i])]
        pairs == [i \in 1..(2 * Len(bases)) |->
                    IF i % 2 = 1 THEN configs[(i + 1) \div 2]
                    ELSE models[i \div 2]]
        Reverse(l) == [i \in DOMAIN l |-> l[Len(l) + 1 - i]]
    IN  {pairs, Reverse(pairs), models \o configs, Reverse(models \o configs)}

\* The orders in which os.listdir may return the files of a directory.
Listings(files) ==
    {SelectSeq(order, LAMBDA f : f \in files) : order \in CopyOrders}

\* A directory: whether it exists, and the names of its files.
Directory(files) == [exists |-> TRUE, files |-> files]
NoDirectory == [exists |-> FALSE, files |-> {}]

\* The voices directory of the server whose registry is LoadedVoices.
InstalledVoices ==
    Directory({ModelFile(en_US_amy_medium), ConfigFile(en_US_amy_medium),
               ModelFile(en_GB_joe_low), ConfigFile(en_GB_joe_low)})

-----------------------------------------------------------------------------
(* What clients send *)

\* The recording of session s: every session speaks a word of its own.
SpeechGroup(s) == <<"b25l", "dHdv", "dGhy", "Zm91">>[s]

\* The voice the client of session s selects from the catalog.
OwnVoice(s) == IF s % 2 = 1 THEN AmyName ELSE JoeName

\* The JSON objects a client of session s may send.
ClientMessages(s) ==
    { [audio |-> <<SpeechGroup(s)>>],                        \* no voice key
      [voice |-> OwnVoice(s), audio |-> <<>>],               \* empty audio
      [voice |-> OwnVoice(s), audio |-> <<"abc">>],          \* broken base64
      [voice |-> OwnVoice(s), audio |-> <<"Y29y">>],         \* no container
      [voice |-> OwnVoice(s), audio |-> <<"c2ls">>],         \* silence
      [voice |-> OwnVoice(s), audio |-> <<SpeechGroup(s)>>], \* speech
      [voice |-> UnknownName, audio |-> <<"c2ls">>],
      [voice |-> UnknownName, audio |-> <<SpeechGroup(s)>>] }

\* The requests of a client that records and sends: its recording, of speech
\* or of silence, with the voice it selected.
Recordings(s) ==
    { [voice |-> OwnVoice(s), audio |-> <<"c2ls">>],
      [voice |-> OwnVoice(s), audio |-> <<SpeechGroup(s)>>] }

\* A well-formed request carries a non-empty voice and a non-empty audio.
WellFormed(m) == Truthy(Get(m, "voice")) /\ Truthy(Get(m, "audio"))

-----------------------------------------------------------------------------
(* Initial state: startup_event has run, no connection is accepted yet *)

\* No connection is accepted yet.
NoConnections ==
    /\ debug_files = [received |-> <<>>, converted |-> <<>>, synthesized |-> <<>>]
    /\ pc = [s \in Sessions |-> "Handshaking"]
    /\ client = [s \in Sessions |-> "open"]
    /\ inbox = [s \in Sessions |-> <<>>]
    /\ sent = [s \in Sessions |-> <<>>]
    /\ delivered = [s \in Sessions |-> 0]
    /\ closeCode = [s \in Sessions |-> 0]
    /\ closeReason = [s \in Sessions |-> <<>>]
    /\ exc = [s \in Sessions |-> "none"]
    /\ voice = [s \in Sessions |-> None]
    /\ audio_b64 = [s \in Sessions |-> None]
    /\ transcribed_text = [s \in Sessions |-> <<>>]
    /\ reqs = [s \in Sessions |-> <<>>]
    /\ synthCalls = [s \in Sessions |-> <<>>]
    /\ leftDuring = [s \in Sessions |-> 0]
    /\ nsent = 0
    /\ ngone = 0
    /\ running = 0

\* The desktop application is not running.
NoApp ==
    /\ available_voices = EmptyDict
    /\ record_button = "none"
    /\ workflow = [t \in Threads |-> "unstarted"]
    /\ current_voice_name = None
    /\ app_files = {}

Init ==
    /\ tts_voices = LoadedVoices
    /\ available_voices_info = LoadedVoicesInfo
    /\ lifespan = "complete"
    /\ voices_dir = InstalledVoices
    /\ NoConnections
    /\ NoApp

-----------------------------------------------------------------------------
(* Clients *)

Processing(s) == pc[s] \in {"Transcribing", "Synthesizing"}

\* A connected client sends a JSON object; the server queues it until the
\* handler's next receive_json.
ClientSend(s, messages) ==
    /\ pc[s] \notin {"Handshaking", "Accepted", "Closed"}
    /\ client[s] = "open"
    /\ nsent < MaxRequests
    /\ \E m \in messages :
          inbox' = [inbox EXCEPT ![s] = Append(@, m)]
    /\ nsent' = nsent + 1
    /\ UNCHANGED <<running, startup, desktop, registry, debug_files, pc,
                   client, sent, delivered, closeCode, closeReason, exc,
                   voice, audio_b64, transcribed_text, reqs, synthCalls,
                   leftDuring, ngone>>

\* The client closes its side, at any moment of the session.
ClientDisconnect(s) ==
    /\ pc[s] \notin {"Handshaking", "Closed"}
    /\ client[s] = "open"
    /\ ngone < MaxDisconnects
    /\ ngone' = ngone + 1
    /\ client' = [client EXCEPT ![s] = "gone"]
    /\ leftDuring' = [leftDuring EXCEPT ![s] =
                         IF Processing(s) THEN Len(reqs[s]) ELSE 0]
    /\ UNCHANGED <<running, startup, desktop, registry, debug_files, pc,
                   inbox, sent, delivered, closeCode, closeReason, exc, voice,
                   audio_b64, transcribed_text, reqs, synthCalls, nsent>>

-----------------------------------------------------------------------------
(* websocket.send_json *)

\* How a send_json ends.  To a connected client it delivers.  Once the client
\* has gone the frame is either written to a dead socket and lost, or the
\* server notices and send raises WebSocketDisconnect.
SendOutcomes(s) ==
    IF client[s] = "open" THEN {"ok"} ELSE {"lost", "WebSocketDisconnect"}

\* The effect of `await websocket.send_json(msg)` ending as o, the handler
\* going on to next when it returns.
SendJson(s, msg, o, next) ==
    IF o = "WebSocketDisconnect"
    THEN \* main.py:137-138
         /\ pc' = [pc EXCEPT ![s] = "Closed"]
         /\ exc' = [exc EXCEPT ![s] = "WebSocketDisconnect"]
         /\ UNCHANGED <<sent, delivered, closeCode, closeReason>>
    ELSE /\ pc' = [pc EXCEPT ![s] = next]
         /\ sent' = [sent EXCEPT ![s] = Append(@, msg)]
         /\ delivered' = [delivered EXCEPT ![s] = IF o = "ok" THEN @ + 1 ELSE @]
         /\ UNCHANGED <<exc, closeCode, closeReason>>

\* main.py:139-141  any other exception: close with code 1011
InternalErrorCode == 1011

\* Faulty variant: the exception is logged and the loop goes on.
HandleException_keepOpen(s, e) ==
    /\ pc' = [pc EXCEPT ![s] = "Idle"]
    /\ exc' = [exc EXCEPT ![s] = e]
    /\ UNCHANGED <<sent, delivered, closeCode, closeReason>>

\* Variant: an error message is sent before the close.
HandleException_errorMessage(s, e) ==
    /\ pc' = [pc EXCEPT ![s] = "Closed"]
    /\ exc' = [exc EXCEPT ![s] = e]
    /\ closeCode' = [closeCode EXCEPT ![s] = InternalErrorCode]
    /\ closeReason' = [closeReason EXCEPT ![s] = <<"An internal error occurred: ", e>>]
    /\ sent' = [sent EXCEPT ![s] = Append(@, [type |-> "error", message |-> e])]
    /\ UNCHANGED delivered

HandleException(s, e) ==
    /\ pc' = [pc EXCEPT ![s] = "Closed"]
    /\ exc' = [exc EXCEPT ![s] = e]
    /\ closeCode' = [closeCode EXCEPT ![s] = InternalErrorCode]
    /\ closeReason' = [closeReason EXCEPT ![s] = <<"An internal error occurred: ", e>>]
    /\ UNCHANGED <<sent, delivered>>

-----------------------------------------------------------------------------
(* The pipeline *)

\* Faulty variant: the joined text is not stripped.
Transcript_unstripped(wav) == Join(Segments(wav))

\* main.py:87  the text of a WAV that Whisper transcribes
Transcript(wav) == Strip(Join(Segments(wav)))

\* main.py:68-89  transcribe_audio_stream, Whisper ending as stt ("ok" or
\* "raise").  raised: the exception that leaves the function ("none" when it
\* returns), text: what it returns, files: what it leaves in DEBUG_FOLDER.
TranscribeAudioStream(audio_bytes, stt, files) ==
    IF ~Convertible(audio_bytes)
    THEN [raised |-> "none", text |-> <<>>,
          files |-> [files EXCEPT !.received = audio_bytes]]
    ELSE LET wav == ConvertToWav(audio_bytes)
             written == [files EXCEPT !.received = audio_bytes, !.converted = wav]
         IN  IF stt = "raise"
             THEN [raised |-> "STT engine failure", text |-> <<>>, files |-> written]
             ELSE [raised |-> "none", text |-> Transcript(wav), files |-> written]

\* Faulty variant: an unknown name falls back to the first loaded voice.
SynthesizeSpeechStream_fallback(text, voice_name, tts, files) ==
    IF tts = "raise"
    THEN [raised |-> "TTS engine failure", bytes |-> <<>>, files |-> files]
    ELSE LET name == IF HasKey(tts_voices, voice_name) THEN voice_name
                     ELSE tts_voices.keys[1]
             wav == SynthesizeWav(text, tts_voices.val[name])
         IN  [raised |-> "none", bytes |-> wav,
              files |-> [files EXCEPT !.synthesized = wav]]

\* main.py:91-112  synthesize_speech_stream, Piper ending as tts.
SynthesizeSpeechStream(text, voice_name, tts, files) ==
    IF ~HasKey(tts_voices, voice_name)
    THEN [raised |-> "Selected voice not found.", bytes |-> <<>>, files |-> files]
    ELSE IF tts = "raise"
    THEN [raised |-> "TTS engine failure", bytes |-> <<>>, files |-> files]
    ELSE LET wav == SynthesizeWav(text, tts_voices.val[voice_name])
         IN  [raised |-> "none", bytes |-> wav,
              files |-> [files EXCEPT !.synthesized = wav]]

\* Faulty variant: the text is read back from the shared debug file.
SynthesisInput_shared(s) ==
    [text |-> Transcript(debug_files.converted), voice |-> voice[s].v]

\* main.py:132  what the handler passes to synthesize_speech_stream
SynthesisInput(s) == [text |-> transcribed_text[s], voice |-> voice[s].v]

-----------------------------------------------------------------------------
(* websocket_endpoint *)

\* Faulty variant: connections are accepted whatever became of startup.
Accept_anyLifespan(s) ==
    /\ pc[s] = "Handshaking"
    /\ \A r \in Sessions : r < s => pc[r] # "Handshaking"
    /\ pc' = [pc EXCEPT ![s] = "Accepted"]
    /\ UNCHANGED <<running, startup, desktop, registry, debug_files, client,
                   inbox, sent, delivered, closeCode, closeReason, exc, voice,
                   audio_b64, transcribed_text, reqs, synthCalls, leftDuring,
                   nsent, ngone>>

\* main.py:117  connections are numbered in the order the server accepts them
Accept(s) ==
    /\ lifespan = "complete"
    /\ pc[s] = "Handshaking"
    /\ \A r \in Sessions : r < s => pc[r] # "Handshaking"
    /\ pc' = [pc EXCEPT ![s] = "Accepted"]
    /\ UNCHANGED <<running, startup, desktop, registry, debug_files, client,
                   inbox, sent, delivered, closeCode, closeReason, exc, voice,
                   audio_b64, transcribed_text, reqs, synthCalls, leftDuring,
                   nsent, ngone>>

\* Faulty variant: the handler enters its loop without sending the catalog.
SendCatalog_skipped(s) ==
    /\ pc[s] = "Accepted"
    /\ pc' = [pc EXCEPT ![s] = "Idle"]
    /\ UNCHANGED <<running, startup, desktop, registry, debug_files, client,
                   inbox, sent, delivered, closeCode, closeReason, exc, voice,
                   audio_b64, transcribed_text, reqs, synthCalls, leftDuring,
                   nsent, ngone>>

\* main.py:119  the catalog, sent before the try block is entered
SendCatalog(s) ==
    /\ pc[s] = "Accepted"
    /\ \E o \in SendOutcomes(s) : SendJson(s, CatalogMessage, o, "Idle")
    /\ UNCHANGED <<running, startup, desktop, registry, debug_files, client,
                   inbox, voice, audio_b64, transcribed_text, reqs,
                   synthCalls, leftDuring, nsent, ngone>>

\* Faulty variant: messages are read while a request is still in the pipeline.
AtReceive_any(s) == pc[s] \in {"Idle", "Transcribing", "Synthesizing"}

\* main.py:121-122  the handler waits in receive_json
AtReceive(s) == pc[s] = "Idle"

\* Faulty variant: only the voice is checked.
ValidRequest_voiceOnly(v, a) == Truthy(v)

\* main.py:125  `if not voice or not audio_b64: continue` is not taken
ValidRequest(v, a) == Truthy(v) /\ Truthy(a)

\* Faulty variant: the disconnect falls into the generic handler.
ReceiveDisconnect_generic(s) ==
    /\ AtReceive(s)
    /\ inbox[s] = <<>>
    /\ client[s] = "gone"
    /\ HandleException(s, "WebSocketDisconnect")
    /\ UNCHANGED <<running, startup, desktop, registry, debug_files, client,
                   inbox, voice, audio_b64, transcribed_text, reqs,
                   synthCalls, leftDuring, nsent, ngone>>

\* main.py:122, 137-138  receive_json finds the disconnect
ReceiveDisconnect(s) ==
    /\ AtReceive(s)
    /\ inbox[s] = <<>>
    /\ client[s] = "gone"
    /\ pc' = [pc EXCEPT ![s] = "Closed"]
    /\ exc' = [exc EXCEPT ![s] = "WebSocketDisconnect"]
    /\ UNCHANGED <<running, startup, desktop, registry, debug_files, client,
                   inbox, sent, delivered, closeCode, closeReason, voice,
                   audio_b64, transcribed_text, reqs, synthCalls, leftDuring,
                   nsent, ngone>>

\* Faulty variant: the request enters the pipeline without a status message.
ReceiveMessage_unannounced(s) ==
    /\ AtReceive(s)
    /\ inbox[s] # <<>>
    /\ LET message == Head(inbox[s])
           v == Get(message, "voice")
           a == Get(message, "audio")
       IN  /\ inbox' = [inbox EXCEPT ![s] = Tail(@)]
           /\ voice' = [voice EXCEPT ![s] = v]
           /\ audio_b64' = [audio_b64 EXCEPT ![s] = a]
           /\ IF ValidRequest(v, a)
              THEN /\ pc' = [pc EXCEPT ![s] = "Transcribing"]
                   /\ reqs' = [reqs EXCEPT ![s] = Append(@, message)]
                   /\ UNCHANGED <<exc, sent, delivered, closeCode,
                                  closeReason>>
              ELSE UNCHANGED <<pc, exc, sent, delivered, closeCode,
                               closeReason, reqs>>
    /\ UNCHANGED <<running, startup, desktop, registry, debug_files, client,
                   transcribed_text, synthCalls, leftDuring, nsent, ngone>>

\* main.py:122-127  receive_json returns a message
ReceiveMessage(s) ==
    /\ AtReceive(s)
    /\ inbox[s] # <<>>
    /\ LET message == Head(inbox[s])
           v == Get(message, "voice")
           a == Get(message, "audio")
       IN  /\ inbox' = [inbox EXCEPT ![s] = Tail(@)]
           /\ voice' = [voice EXCEPT ![s] = v]
           /\ audio_b64' = [audio_b64 EXCEPT ![s] = a]
           /\ IF ValidRequest(v, a)
              THEN \E o \in SendOutcomes(s) :
                      /\ SendJson(s, StatusReceived, o, "Transcribing")
                      /\ reqs' = [reqs EXCEPT ![s] =
                                    IF o = "WebSocketDisconnect" THEN @
                                    ELSE Append(@, message)]
              ELSE UNCHANGED <<pc, exc, sent, delivered, closeCode,
                               closeReason, reqs>>
    /\ UNCHANGED <<running, startup, desktop, registry, debug_files, client,
                   transcribed_text, synthCalls, leftDuring, nsent, ngone>>

\* main.py:128-131, 135-136  decode, transcribe, and answer silence
TranscribeStep(s) ==
    /\ pc[s] = "Transcribing"
    /\ running \in {0, s}
    /\ running' = 0
    /\ IF ~B64Valid(audio_b64[s].v)
       THEN \* main.py:128  base64.b64decode raises binascii.Error
            /\ HandleException(s, "Incorrect padding")
            /\ UNCHANGED <<debug_files, transcribed_text>>
       ELSE \E stt \in {"ok", "raise"} :
            LET r == TranscribeAudioStream(B64Decode(audio_b64[s].v), stt, debug_files)
            IN  /\ debug_files' = r.files
                /\ IF r.raised # "none"
                   THEN /\ HandleException(s, r.raised)
                        /\ UNCHANGED transcribed_text
                   ELSE /\ transcribed_text' = [transcribed_text EXCEPT ![s] = r.text]
                        /\ \E o \in SendOutcomes(s) :
                              IF r.text # <<>>
                              THEN SendJson(s, StatusSynthesizing, o, "Synthesizing")
                              ELSE SendJson(s, NoSpeechResult, o, "Idle")
    /\ UNCHANGED <<startup, desktop, registry, client, inbox, voice,
                   audio_b64, reqs, synthCalls, leftDuring, nsent, ngone>>

\* main.py:132-134  synthesize, encode, send the result
SynthesizeStep(s) ==
    /\ pc[s] = "Synthesizing"
    /\ running \in {0, s}
    /\ running' = 0
    /\ \E tts \in {"ok", "raise"} :
       LET in == SynthesisInput(s)
           r == SynthesizeSpeechStream(in.text, in.voice, tts, debug_files)
       IN  /\ synthCalls' = [synthCalls EXCEPT ![s] = Append(@, in)]
           /\ debug_files' = r.files
           /\ IF r.raised # "none"
              THEN HandleException(s, r.raised)
              ELSE \E o \in SendOutcomes(s) :
                      SendJson(s, ResultMessage(in.text, B64Encode(r.bytes)), o, "Idle")
    /\ UNCHANGED <<startup, desktop, registry, client, inbox, voice, audio_b64,
                   transcribed_text, reqs, leftDuring, nsent, ngone>>

-----------------------------------------------------------------------------

\* One step of connection s, its client sending any of messages.
Step(s, messages) ==
    \/ ClientSend(s, messages)
    \/ ClientDisconnect(s)
    \/ Accept(s)
    \/ SendCatalog(s)
    \/ ReceiveDisconnect(s)
    \/ ReceiveMessage(s)
    \/ TranscribeStep(s)
    \/ SynthesizeStep(s)

\* Every connection, every message.
Next == \E s \in Sessions : Step(s, ClientMessages(s))

Spec == Init /\ [][Next]_vars

\* One connection in depth: the server accepts a single client, which sends
\* every kind of message.
SessionNext == Step(1, ClientMessages(1))

SessionSpec == Init /\ [][SessionNext]_vars

\* The connections side by side: every client sends its own recordings.
ConcurrentNext == \E s \in Sessions : Step(s, Recordings(s))

ConcurrentSpec == Init /\ [][ConcurrentNext]_vars

-----------------------------------------------------------------------------
(* Startup *)

\* main.py:33-62  startup_event.  The server serves connections only once it
\* has returned; when it raises, startup has failed and the server exits.
StartupEvent ==
    /\ lifespan = "startup"
    /\ \E stt_load \in {"ok", "raise"},
          listing \in Listings(voices_dir.files),
          broken \in {{}} \cup {{f} : f \in Packs(voices_dir.files)} :
          LET r == StartupEventResult(voices_dir, listing, stt_load, broken,
                                      tts_voices, available_voices_info)
          IN  /\ tts_voices' = r.tts
              /\ available_voices_info' = r.info
              /\ lifespan' = IF r.raised = "none" THEN "complete" ELSE r.raised
    /\ UNCHANGED <<voices_dir, desktop, connections>>

\* voice_changer_app.py:46-82  App.__init__: the scan (which creates a
\* missing directory) and the button, disabled when no voice was found.
AppInit ==
    /\ record_button = "none"
    /\ \E listing \in Listings(voices_dir.files) :
          LET voices == ScanForVoices(voices_dir, listing)
          IN  /\ available_voices' = voices
              /\ record_button' =
                    IF voices.keys = <<>> THEN "disabled" ELSE "normal"
    /\ voices_dir' = [voices_dir EXCEPT !.exists = TRUE]
    /\ UNCHANGED <<registry, lifespan, connections, workflow,
                   current_voice_name, app_files>>

\* The states a voices directory can be in.
Directories ==
    {NoDirectory} \cup
    {Directory(files) : files \in
        {F \in SUBSET VoiceFiles : Cardinality(F) <= MaxFiles}}

\* Before startup: nothing is loaded, the directory is in any state.
Discovering ==
    /\ tts_voices = EmptyDict
    /\ available_voices_info = EmptyDict
    /\ lifespan = "startup"
    /\ voices_dir \in Directories
    /\ NoConnections
    /\ NoApp

\* Discovery alone: the server and the desktop application start on the
\* directory.
DiscoveryNext == StartupEvent \/ AppInit

DiscoverySpec == Discovering /\ [][DiscoveryNext]_vars

\* What the client of session s asks for: a recording of speech in a voice
\* of the catalog it was sent, every client picking another one.
CatalogRequests(s) ==
    IF sent[s] = <<>> \/ sent[s][1].type # "voices" THEN {}
    ELSE LET data == sent[s][1].data
         IN  {[voice |-> data[i], audio |-> <<SpeechGroup(s)>>] :
                 i \in {j \in DOMAIN data : j % Len(data) = s % Len(data)}}

\* The voices directories the server is started on: none, an empty one, and
\* one with two packs of the same display name, a third pack, and a model
\* that lacks its configuration file.
ServerDirectories ==
    {NoDirectory, Directory({}),
     Directory({ModelFile(en_US_amy_medium), ConfigFile(en_US_amy_medium),
                ModelFile(es_US_amy_medium), ConfigFile(es_US_amy_medium),
                ModelFile(en_GB_joe_low), ConfigFile(en_GB_joe_low),
                ModelFile(en_US_hfc_female_medium)})}

Starting ==
    /\ tts_voices = EmptyDict
    /\ available_voices_info = EmptyDict
    /\ lifespan = "startup"
    /\ voices_dir \in ServerDirectories
    /\ NoConnections
    /\ NoApp

\* The server from its start: startup_event, then the connections, every
\* client asking for voices of the catalog.
ServerNext ==
    \/ StartupEvent
    \/ \E s \in Sessions : Step(s, CatalogRequests(s))

ServerSpec == Starting /\ [][ServerNext]_vars

-----------------------------------------------------------------------------
(* The desktop application: process_voice *)

\* voice_changer_app.py:13-14
AUDIO_FILE == "temp_recording.wav"
TTS_OUTPUT_FILE == "tts_output.wav"

server == <<registry, startup, connections>>

\* Thread t goes on to next.
Goto(t, next) == workflow' = [workflow EXCEPT ![t] = next]

\* voice_changer_app.py:71, 167-171  a click on the record button, which runs
\* its command only while it is enabled: start_processing_thread starts a
\* thread and returns.
Click(t) ==
    /\ record_button = "normal"
    /\ workflow[t] = "unstarted"
    /\ \A u \in Threads : u < t => workflow[u] # "unstarted"
    /\ Goto(t, "started")
    /\ UNCHANGED <<server, available_voices, record_button,
                   current_voice_name, app_files>>

\* voice_changer_app.py:146  the first statement of the thread
DisableButton(t) ==
    /\ workflow[t] = "started"
    /\ record_button' = "disabled"
    /\ Goto(t, "recording")
    /\ UNCHANGED <<server, available_voices, current_voice_name, app_files>>

\* voice_changer_app.py:149, 25-32  record_audio writes AUDIO_FILE, or the
\* sound device raises.
RecordAudio(t) ==
    /\ workflow[t] = "recording"
    /\ \/ /\ app_files' = app_files \cup {AUDIO_FILE}
          /\ Goto(t, "transcribing")
       \/ /\ Goto(t, "raised")
          /\ UNCHANGED app_files
    /\ UNCHANGED <<server, available_voices, record_button,
                   current_voice_name>>

\* voice_changer_app.py:152-157, 35-41, 115-117  transcribe_audio reads
\* AUDIO_FILE; speak_text_piper returns at once when the text is empty.
TranscribeAudio(t) ==
    /\ workflow[t] = "transcribing"
    /\ \E text \in {"speech", "silence", "raise"} :
          /\ AUDIO_FILE \notin app_files => text = "raise"
          /\ Goto(t, CASE text = "speech" -> "loading"
                       [] text = "silence" -> "cleanup"
                       [] text = "raise" -> "raised")
    /\ UNCHANGED <<server, available_voices, record_button,
                   current_voice_name, app_files>>

\* voice_changer_app.py:119-129  the selected voice is loaded when it is not
\* the current one; PiperVoice.load may raise.
LoadVoice(t) ==
    /\ workflow[t] = "loading"
    /\ \E i \in DOMAIN available_voices.keys :
          LET selected == Str(available_voices.keys[i])
          IN  \/ /\ current_voice_name' = selected
                 /\ Goto(t, "synthesizing")
              \/ /\ selected # current_voice_name
                 /\ Goto(t, "raised")
                 /\ UNCHANGED current_voice_name
    /\ UNCHANGED <<server, available_voices, record_button, app_files>>

\* voice_changer_app.py:131-133  synthesize into TTS_OUTPUT_FILE
Synthesize(t) ==
    /\ workflow[t] = "synthesizing"
    /\ app_files' = app_files \cup {TTS_OUTPUT_FILE}
    /\ \/ Goto(t, "playing")
       \/ Goto(t, "raised")
    /\ UNCHANGED <<server, available_voices, record_button,
                   current_voice_name>>

\* voice_changer_app.py:135-142  read TTS_OUTPUT_FILE, play it, remove it
Play(t) ==
    /\ workflow[t] = "playing"
    /\ \/ /\ TTS_OUTPUT_FILE \in app_files
          /\ app_files' = app_files \ {TTS_OUTPUT_FILE}
          /\ Goto(t, "cleanup")
       \/ /\ Goto(t, "raised")
          /\ UNCHANGED app_files
    /\ UNCHANGED <<server, available_voices, record_button,
                   current_voice_name>>

\* voice_changer_app.py:161-165  remove AUDIO_FILE, enable the button
Finish(t) ==
    /\ workflow[t] = "cleanup"
    /\ app_files' = app_files \ {AUDIO_FILE}
    /\ record_button' = "normal"
    /\ Goto(t, "finished")
    /\ UNCHANGED <<server, available_voices, current_voice_name>>

\* The desktop application on the installed voices: it starts, the user
\* clicks, the threads run.
DesktopNext ==
    \/ AppInit
    \/ \E t \in Threads :
          \/ Click(t)
          \/ DisableButton(t)
          \/ RecordAudio(t)
          \/ TranscribeAudio(t)
          \/ LoadVoice(t)
          \/ Synthesize(t)
          \/ Play(t)
          \/ Finish(t)

DesktopSpec == Init /\ [][DesktopNext]_vars

-----------------------------------------------------------------------------
(* The event loop *)

\* main.py:128-129, 132-133  b64decode, transcribe_audio_stream and
\* synthesize_speech_stream are plain calls inside the coroutine: from the
\* moment the handler of s is resumed after its status message until its
\* next await, the event loop's only thread is inside that call.
EnterPipeline(s) ==
    /\ running = 0
    /\ Processing(s)
    /\ running' = s
    /\ UNCHANGED <<startup, desktop, registry, debug_files, pc, client, inbox,
                   sent, delivered, closeCode, closeReason, exc, voice,
                   audio_b64, transcribed_text, reqs, synthCalls, leftDuring,
                   nsent, ngone>>

\* The call returns and the handler goes on to its next await.
LeavePipeline(s) ==
    /\ running = s
    /\ (TranscribeStep(s) \/ SynthesizeStep(s))

\* What the handler of s does when the event loop resumes it.
Resume(s) ==
    \/ Accept(s)
    \/ SendCatalog(s)
    \/ ReceiveDisconnect(s)
    \/ ReceiveMessage(s)

\* The event loop resumes a handler only when no call occupies it.
OnLoop(s) == running = 0 /\ Resume(s)

\* The connections on the one event loop of the server, the slow calls
\* taking time: clients act at any moment, handlers only in turn.
LoopNext ==
    \E s \in Sessions :
        \/ ClientSend(s, Recordings(s))
        \/ ClientDisconnect(s)
        \/ EnterPipeline(s)
        \/ LeavePipeline(s)
        \/ OnLoop(s)

LoopSpec == Init /\ [][LoopNext]_vars

-----------------------------------------------------------------------------
(* What the claims speak of *)

Last(seq) == seq[Len(seq)]

IsResult(m) == m.type = "result"

\* The Result messages session s has sent, in order.
Results(s) == SelectSeq(sent[s], IsResult)

UnknownVoice(v) == ~HasKey(tts_voices, v)

\* The exceptions the pipeline raises.
EngineFailures == {"STT engine failure", "TTS engine failure"}
PipelineFailures == EngineFailures \cup {"Incorrect padding", "Selected voice not found."}

CloseReasonFor(e) == <<"An internal error occurred: ", e>>

\* The payload of request m cannot be turned into PCM.
Undecodable(m) == ~B64Valid(m.audio) \/ ~Convertible(B64Decode(m.audio))

\* The transcript of request m's recording, empty when there is none.
RequestTranscript(m) ==
    IF Undecodable(m) THEN <<>>
    ELSE Strip(Join(Segments(ConvertToWav(B64Decode(m.audio)))))

\* The Result that answers request m from m alone.
OwnResult(m) ==
    LET text == RequestTranscript(m)
    IN  IF text = <<>> THEN NoSpeechResult
        ELSE ResultMessage(text, B64Encode(SynthesizeWav(text, tts_voices.val[m.voice])))

-----------------------------------------------------------------------------
(* C1 *)

\* C1, as stated: a request that reaches synthesis with a voice name that is
\* no key of the registry never gets the connection closed with the
\* internal-error code.
C1_UnknownVoiceKeepsOpen ==
    \A s \in Sessions :
        (synthCalls[s] # <<>> /\ UnknownVoice(Last(synthCalls[s]).voice))
            => closeCode[s] # InternalErrorCode

\* C1, amended: whenever synthesis is invoked with a voice name that is no key
\* of the registry, the lookup raises and the handler closes the connection
\* with code 1011 and the reason "Selected voice not found."; that request
\* gets no Result and is the last one the session processes.  A request with
\* such a voice is only ever answered by the Result for no speech.
C1_UnknownVoiceCloses ==
    \A s \in Sessions :
        /\ \A k \in DOMAIN synthCalls[s] :
              UnknownVoice(synthCalls[s][k].voice) =>
                  /\ k = Len(synthCalls[s])
                  /\ pc[s] = "Closed"
                  /\ closeCode[s] = InternalErrorCode
                  /\ closeReason[s] = CloseReasonFor("Selected voice not found.")
                  /\ Len(Results(s)) = Len(reqs[s]) - 1
        /\ \A k \in DOMAIN Results(s) :
              UnknownVoice(reqs[s][k].voice) => Results(s)[k] = NoSpeechResult

C1_Witness ==
    \E s \in Sessions :
        /\ pc[s] = "Closed"
        /\ closeReason[s] = CloseReasonFor("Selected voice not found.")
        /\ Len(reqs[s]) = 2
        /\ UnknownVoice(reqs[s][1].voice)
        /\ Results(s) = <<NoSpeechResult>>

-----------------------------------------------------------------------------
(* C2 *)

\* C2, as stated: a request whose audio payload cannot be turned into PCM
\* never gets the connection closed with the internal-error code, and once
\* the handler is back at receive_json it has been answered by the Result for
\* no speech.
C2_DecodeFailureRecovered ==
    \A s \in Sessions :
        (reqs[s] # <<>> /\ Undecodable(Last(reqs[s]))) =>
            /\ closeCode[s] # InternalErrorCode
            /\ pc[s] = "Idle" => Last(sent[s]) = NoSpeechResult

-----------------------------------------------------------------------------
(* C3 *)

\* C3: when the STT or the TTS engine raises, the session is Closed, the
\* connection is closed with code 1011 and a reason, the request in flight
\* got no Result, and a Closed session sends nothing and starts no request.
C3_EngineFailureCloses ==
    /\ [](\A s \in Sessions :
            exc[s] \in EngineFailures =>
                /\ pc[s] = "Closed"
                /\ closeCode[s] = InternalErrorCode
                /\ closeReason[s] = CloseReasonFor(exc[s])
                /\ Len(Results(s)) = Len(reqs[s]) - 1
                /\ Last(sent[s]).type = "status")
    /\ [][\A s \in Sessions :
            pc[s] = "Closed" =>
                /\ pc'[s] = "Closed"
                /\ sent'[s] = sent[s]
                /\ reqs'[s] = reqs[s]
                /\ synthCalls'[s] = synthCalls[s]]_vars

C3_Witness ==
    \E s \in Sessions :
        /\ exc[s] = "TTS engine failure"
        /\ pc[s] = "Closed"
        /\ Len(reqs[s]) = 2
        /\ Len(Results(s)) = 1

-----------------------------------------------------------------------------
(* C4 *)

\* C4, as stated: a connection closed with the internal-error code has been
\* sent an Error message before.
C4_ErrorMessageBeforeClose ==
    \A s \in Sessions :
        closeCode[s] = InternalErrorCode =>
            \E i \in DOMAIN sent[s] : sent[s][i].type = "error"

\* C4, amended: when a session leaves Processing because of an unrecovered
\* exception, no Error message is sent: the handler only closes the
\* connection, with code 1011 and a reason that carries the exception's text.
\* The last message before the close is the Status of the failed step.
C4_CloseFrameOnly ==
    \A s \in Sessions :
        /\ \A i \in DOMAIN sent[s] : sent[s][i].type \in {"voices", "status", "result"}
        /\ closeCode[s] = InternalErrorCode =>
              /\ pc[s] = "Closed"
              /\ exc[s] \in PipelineFailures
              /\ closeReason[s] = CloseReasonFor(exc[s])
              /\ Last(sent[s]).type = "status"
        /\ closeCode[s] # InternalErrorCode => closeCode[s] = 0 /\ closeReason[s] = <<>>

C4_Witness ==
    \E s \in Sessions :
        /\ closeCode[s] = InternalErrorCode
        /\ exc[s] = "STT engine failure"
        /\ Last(sent[s]) = StatusReceived

-----------------------------------------------------------------------------
(* C5 *)

\* C5: the first message a session sends is the Catalog, no other message of
\* the session is a Catalog, and a session that has entered its request loop
\* has sent it.
C5_OneCatalogFirst ==
    \A s \in Sessions :
        /\ sent[s] # <<>> => sent[s][1] = CatalogMessage
        /\ \A i \in DOMAIN sent[s] : i > 1 => sent[s][i].type # "voices"
        /\ (pc[s] \in {"Idle", "Transcribing", "Synthesizing"} \/ reqs[s] # <<>>)
              => sent[s] # <<>>

C5_Witness ==
    \E s \in Sessions :
        /\ Len(Results(s)) = 2
        /\ sent[s][1].type = "voices"
        /\ sent[s][1].data = <<JoeName, AmyName>>

-----------------------------------------------------------------------------
(* C6 *)

\* C6: a request whose transcript is empty is answered by the Result for no
\* speech, synthesis is not invoked for it, and after that Result the handler
\* is back at receive_json (or has found the client gone).
C6_SilenceAnswered ==
    \A s \in Sessions :
        /\ \A k \in DOMAIN Results(s) :
              RequestTranscript(reqs[s][k]) = <<>> => Results(s)[k] = NoSpeechResult
        /\ \A k \in DOMAIN synthCalls[s] : synthCalls[s][k].text # <<>>
        /\ Len(synthCalls[s]) <=
              Cardinality({k \in DOMAIN reqs[s] : RequestTranscript(reqs[s][k]) # <<>>})
        /\ pc[s] = "Synthesizing" => RequestTranscript(Last(reqs[s])) # <<>>
        /\ (sent[s] # <<>> /\ Last(sent[s]) = NoSpeechResult) =>
              \/ pc[s] = "Idle"
              \/ pc[s] = "Closed" /\ exc[s] = "WebSocketDisconnect"

C6_Witness ==
    \E s \in Sessions :
        /\ Len(Results(s)) = 2
        /\ ~Undecodable(reqs[s][1])
        /\ Results(s)[1] = NoSpeechResult
        /\ Results(s)[2].audio # None
        /\ Len(synthCalls[s]) = 1

-----------------------------------------------------------------------------
(* C7 *)

\* C7: reading a message whose voice or audio is missing or empty sends
\* nothing, closes nothing and leaves the session where it was, at
\* receive_json; only the queue and the two locals that the next message
\* overwrites change.
C7_MalformedIgnored ==
    [][\A s \in Sessions :
          (/\ pc[s] = "Idle"
           /\ inbox[s] # <<>>
           /\ ~WellFormed(Head(inbox[s]))
           /\ inbox'[s] = Tail(inbox[s]))
          => /\ pc'[s] = "Idle"
             /\ UNCHANGED <<sent, delivered, closeCode, closeReason, exc,
                            transcribed_text, reqs, synthCalls, debug_files,
                            registry>>]_vars

C7_Witness ==
    \E s \in Sessions :
        /\ nsent = 2
        /\ inbox[s] = <<>>
        /\ Len(reqs[s]) = 1
        /\ voice[s] = Str(reqs[s][1].voice)
        /\ ~UnknownVoice(reqs[s][1].voice)
        /\ RequestTranscript(reqs[s][1]) # <<>>
        /\ sent[s] = <<CatalogMessage, StatusReceived, StatusSynthesizing,
                       OwnResult(reqs[s][1])>>

-----------------------------------------------------------------------------
(* C8 *)

\* C8, as stated: a session whose client left while a request was in flight
\* ends as a client disconnect, never as an internal-error closure.
C8_EndsAsDisconnect ==
    \A s \in Sessions :
        (leftDuring[s] > 0 /\ pc[s] = "Closed") =>
            exc[s] = "WebSocketDisconnect" /\ closeCode[s] = 0

\* The Results among the messages that reached the client of s.
DeliveredResults(s) == SelectSeq(SubSeq(sent[s], 1, delivered[s]), IsResult)

\* C8, amended: if the client leaves while a request is in flight, no Result
\* for that request or a later one is delivered and no request is run twice;
\* the session ends as a client disconnect when the pipeline completes, and
\* through the internal-error handler (code 1011) when the step in flight
\* itself raises.
C8_ResultDiscarded ==
    \A s \in Sessions :
        /\ leftDuring[s] > 0 => Len(DeliveredResults(s)) < leftDuring[s]
        /\ Len(synthCalls[s]) <= Len(reqs[s])
        /\ Len(reqs[s]) + Len(inbox[s]) <= nsent
        /\ pc[s] = "Closed" =>
              \/ exc[s] = "WebSocketDisconnect" /\ closeCode[s] = 0
              \/ exc[s] \in PipelineFailures /\ closeCode[s] = InternalErrorCode

C8_Witness ==
    \E s \in Sessions :
        /\ leftDuring[s] > 0
        /\ pc[s] = "Closed"
        /\ exc[s] = "WebSocketDisconnect"
        /\ Last(sent[s]).type = "result"
        /\ delivered[s] < Len(sent[s])

-----------------------------------------------------------------------------
(* C9 *)

\* C9: a session runs one pipeline at a time.  While a request is in the
\* pipeline every earlier request has its Result; at receive_json every
\* request has; and the messages of one request follow those of the one
\* before without interleaving: Status, optionally Status, Result.
C9_OnePipelineAtATime ==
    \A s \in Sessions :
        /\ Processing(s) => Len(Results(s)) = Len(reqs[s]) - 1
        /\ pc[s] = "Idle" => Len(Results(s)) = Len(reqs[s])
        /\ \A i \in DOMAIN sent[s] :
              /\ sent[s][i] = StatusReceived =>
                    i = 2 \/ (i > 2 /\ sent[s][i - 1].type = "result")
              /\ sent[s][i] = StatusSynthesizing =>
                    i > 1 /\ sent[s][i - 1] = StatusReceived
              /\ sent[s][i].type = "result" =>
                    i > 1 /\ sent[s][i - 1].type = "status"

C9_Witness ==
    \E s \in Sessions :
        /\ pc[s] = "Synthesizing"
        /\ inbox[s] # <<>>
        /\ WellFormed(Head(inbox[s]))

-----------------------------------------------------------------------------
(* C10 *)

\* C10: every Result a session is sent is the Result of that session's own
\* request: the k-th Result carries the transcript of the k-th request's
\* audio and that text synthesized in the k-th request's voice.
C10_NoCrossTalk ==
    \A s \in Sessions :
        \A k \in DOMAIN Results(s) :
            /\ k <= Len(reqs[s])
            /\ RequestTranscript(reqs[s][k]) # <<>> => ~UnknownVoice(reqs[s][k].voice)
            /\ Results(s)[k] = OwnResult(reqs[s][k])

\* Session r waits in Synthesizing while session s, which transcribed after
\* r, has got its Result.
C10_Witness ==
    \E s, r \in Sessions :
        /\ s # r
        /\ pc[r] = "Synthesizing"
        /\ Len(Results(s)) = 1
        /\ Results(s)[1].audio # None
        /\ debug_files.converted = ConvertToWav(B64Decode(reqs[s][1].audio))

-----------------------------------------------------------------------------
(* C11 *)

\* C11: while one session is inside a slow pipeline step (decode, transcribe
\* or synthesize), every other session can still make progress: a waiting
\* connection can be accepted and be sent its catalog, and another session
\* can be sent its status message, before the slow step finishes.
C11_OthersProgressDuringStep ==
    \A s \in Sessions : \A r \in Sessions \ {s} :
        (running = s /\ ENABLED Resume(r)) => ENABLED OnLoop(r)

-----------------------------------------------------------------------------
(* C12 *)

\* C12: the voice registry is built once, at startup, and no action of a
\* session (accept, request processing, error, disconnect) modifies it
\* afterwards; every Catalog message, of every connection and whatever the
\* number of sessions, carries the same content: the display names of the
\* registry.
C12_RegistryFixedAfterStartup ==
    /\ [](\A s \in Sessions : \A i \in DOMAIN sent[s] :
             sent[s][i].type = "voices" => sent[s][i].data = tts_voices.keys)
    /\ [][lifespan # "startup" => registry' = registry]_vars

\* Every session was sent its catalog of a registry with several voices, one
\* session has synthesized and another one has ended.
C12_Witness ==
    /\ lifespan = "complete"
    /\ Len(tts_voices.keys) > 1
    /\ \A s \in Sessions : sent[s] # <<>> /\ sent[s][1].type = "voices"
    /\ \E s \in Sessions : synthCalls[s] # <<>>
    /\ \E s \in Sessions : pc[s] = "Closed"

-----------------------------------------------------------------------------
(* C13 *)

HfcFemaleName == <<"Hfc", " ", "Female", " (", "US", ", ", "medium", ")">>

\* The display name the convention <lang>_<REGION>-<name>-<quality> gives a
\* base name: "<Name> (<REGION>, <quality>)", and the base name itself when
\* it has fewer than three segments or no region.
ConventionName(base_name) ==
    CASE base_name = en_US_amy_medium -> AmyName
      [] base_name = es_US_amy_medium -> AmyName
      [] base_name = en_GB_joe_low -> JoeName
      [] base_name = en_US_hfc_female_medium -> HfcFemaleName
      [] base_name = en_US_amy -> en_US_amy
      [] base_name = en_amy_medium -> en_amy_medium

\* C13: the display name is a function of the base file name alone:
\* en_US-amy-medium gives "Amy (US, medium)", and a base name with fewer than
\* three hyphen-separated segments, or whose first segment has no second
\* underscore-separated token, gives the base name itself; the derivation
\* never raises.  It holds of every entry of the server's registry and of
\* the desktop application's.
C13_DisplayNameDerivation ==
    /\ \A k \in DOMAIN available_voices_info.val :
          k = ConventionName(available_voices_info.val[k])
    /\ \A k \in DOMAIN available_voices.val : \A b \in BaseNames :
          available_voices.val[k].config = ConfigFile(b) => k = ConventionName(b)
    /\ lifespan \in {"startup", "complete", "WhisperModel failed",
                      "The voices directory 'voices' was not found.",
                      "PiperVoice.load failed"}

\* Both programs have derived the name of a pack that follows the convention
\* and of one that does not.
C13_Witness ==
    /\ lifespan = "complete"
    /\ available_voices_info.keys = <<en_amy_medium, AmyName>>
    /\ available_voices_info.val[AmyName] = en_US_amy_medium
    /\ available_voices.keys = <<en_amy_medium, AmyName>>

-----------------------------------------------------------------------------
(* C14 *)

\* The display names of the packs of the directory that are complete: the
\* model file and the configuration file of the same stem both exist.
CompletePackNames ==
    {FriendlyName(b) : b \in {c \in BaseNames :
        ModelFile(c) \in voices_dir.files /\ ConfigFile(c) \in voices_dir.files}}

\* C14: after discovery the registry holds an entry derived from a voice pack
\* if and only if both the pack's model file and its same-stem configuration
\* file exist; a model without its configuration file, or a configuration
\* file without its model, is skipped and does not make startup fail.  It
\* holds of the server's registry and of the desktop application's.
C14_CompletePacksOnly ==
    /\ lifespan = "complete" =>
          /\ {tts_voices.keys[i] : i \in DOMAIN tts_voices.keys}
                = CompletePackNames
          /\ DOMAIN available_voices_info.val = CompletePackNames
    /\ record_button # "none" =>
          {available_voices.keys[i] : i \in DOMAIN available_voices.keys}
            = CompletePackNames

-----------------------------------------------------------------------------
(* C15 *)

\* The model files whose display name is "Amy (US, medium)", in the
\* lexicographic order of their names.
AmyModels ==
    <<ModelFile(en_US_amy_medium), ModelFile(en_US_amy_medium_onnx),
      ModelFile(es_US_amy_medium)>>

\* The last of them that discovery took for a voice pack (0: none).
LastAmyPack ==
    LET found == {i \in DOMAIN AmyModels :
                     AmyModels[i] \in Packs(voices_dir.files)}
    IN  IF found = {} THEN 0
        ELSE CHOOSE i \in found : \A j \in found : j <= i

NoDuplicates(seq) ==
    \A i, j \in DOMAIN seq : i # j => seq[i] # seq[j]

\* C15: packs are processed in the lexicographic order of their file names
\* and a display name derived by several packs is resolved last-write-wins:
\* the registry holds one entry for the name, bound to the pack whose file
\* name is lexicographically last, whatever the order of the directory
\* listing, and the catalog lists the name once.  It holds of the server's
\* registry and of the desktop application's.
C15_LastPackWins ==
    /\ lifespan = "complete" =>
          /\ NoDuplicates(tts_voices.keys)
          /\ NoDuplicates(available_voices_info.keys)
          /\ HasKey(tts_voices, AmyName) <=> LastAmyPack # 0
          /\ LastAmyPack # 0 =>
                /\ tts_voices.val[AmyName]
                      = PiperVoiceLoad(AmyModels[LastAmyPack])
                /\ available_voices_info.val[AmyName]
                      = BaseName(AmyModels[LastAmyPack])
    /\ record_button # "none" =>
          /\ NoDuplicates(available_voices.keys)
          /\ HasKey(available_voices, AmyName) <=> LastAmyPack # 0
          /\ LastAmyPack # 0 =>
                available_voices.val[AmyName].model = AmyModels[LastAmyPack]

\* Two complete packs named "Amy (US, medium)" were discovered by both
\* programs.
C15_Witness ==
    /\ lifespan = "complete"
    /\ record_button = "normal"
    /\ {AmyModels[1], AmyModels[3]} \subseteq Packs(voices_dir.files)
    /\ tts_voices.keys = <<AmyName>>
    /\ tts_voices.val[AmyName] = "ama"
    /\ available_voices_info.val[AmyName] = es_US_amy_medium

-----------------------------------------------------------------------------
(* C16 *)

\* C16: a failure of startup is fatal: when the voices directory is absent,
\* or a collaborator model fails to load, startup fails, and then no client
\* connection is ever accepted and no Catalog is ever sent.
C16_StartupFailureFatal ==
    /\ ~voices_dir.exists => lifespan # "complete"
    /\ lifespan # "complete" =>
          \A s \in Sessions : pc[s] = "Handshaking" /\ sent[s] = <<>>

\* startup_event has raised because the voices directory is absent.
C16_Witness ==
    /\ ~voices_dir.exists
    /\ lifespan = "The voices directory 'voices' was not found."

-----------------------------------------------------------------------------
(* C17 *)

\* Message i of session s is the first of a request cycle's messages or
\* follows the catalog: what precedes it is the catalog or a Result.
AfterCycle(s, i) ==
    i > 1 /\ (sent[s][i - 1].type = "voices" \/ IsResult(sent[s][i - 1]))

\* C17: within each request cycle the Status "Received audio.
\* Transcribing..." is sent before decoding starts; for a non-empty
\* transcript the Status "Synthesizing new voice..." is sent before
\* synthesis starts and before the Result, which carries the transcript and
\* a non-null audio; a cycle has at most one Result, and no Status of a
\* request follows its Result.
C17_CycleOrder ==
    /\ [](\A s \in Sessions : \A i \in DOMAIN sent[s] :
             LET m == sent[s][i]
             IN  /\ m = StatusReceived => AfterCycle(s, i)
                 /\ m = StatusSynthesizing =>
                       i > 1 /\ sent[s][i - 1] = StatusReceived
                 /\ IsResult(m) /\ m.audio # None =>
                       /\ i > 1 /\ sent[s][i - 1] = StatusSynthesizing
                       /\ m.text # <<>>
                       /\ \E k \in DOMAIN synthCalls[s] :
                             m.text = synthCalls[s][k].text
                 /\ IsResult(m) /\ m.audio = None =>
                       i > 1 /\ sent[s][i - 1] = StatusReceived
                 /\ m.type = "status" =>
                       m \in {StatusReceived, StatusSynthesizing})
    /\ [](\A s \in Sessions : Len(Results(s)) <= Len(reqs[s]))
    /\ [](\A s \in Sessions :
             /\ pc[s] = "Transcribing" =>
                   sent[s] # <<>> /\ Last(sent[s]) = StatusReceived
             /\ pc[s] = "Synthesizing" =>
                   sent[s] # <<>> /\ Last(sent[s]) = StatusSynthesizing)
    /\ [][\A s \in Sessions :
             /\ debug_files' # debug_files => \E r \in Sessions : Processing(r)
             /\ synthCalls'[s] # synthCalls[s] =>
                   /\ Last(sent[s]) = StatusSynthesizing
                   /\ transcribed_text[s] # <<>>]_vars

\* Two cycles of one session: a recording of speech answered by a Result with
\* audio after both Status messages, then a request answered "No speech
\* detected."
C17_Witness ==
    \E s \in Sessions :
        /\ Len(sent[s]) = 6
        /\ sent[s][2] = StatusReceived
        /\ sent[s][3] = StatusSynthesizing
        /\ IsResult(sent[s][4]) /\ sent[s][4].audio # None
        /\ sent[s][5] = StatusReceived
        /\ sent[s][6] = NoSpeechResult

-----------------------------------------------------------------------------
(* C18 *)

\* C18: the keys of available_voices_info always equal the keys of
\* tts_voices, so a request that names any voice of the Catalog never fails
\* with "Selected voice not found."
C18_CatalogVoicesFound ==
    /\ tts_voices.keys = available_voices_info.keys
    /\ DOMAIN tts_voices.val = DOMAIN available_voices_info.val
    /\ \A s \in Sessions :
          /\ exc[s] # "Selected voice not found."
          /\ \A k \in DOMAIN reqs[s] : ~UnknownVoice(reqs[s][k].voice)

\* Every session has asked for a voice of its catalog, each for another one,
\* and was sent the Result with audio.
C18_Witness ==
    /\ lifespan = "complete"
    /\ \A s \in Sessions :
          /\ synthCalls[s] # <<>>
          /\ \E i \in DOMAIN sent[s] :
                IsResult(sent[s][i]) /\ sent[s][i].audio # None
    /\ \E s, r \in Sessions : synthCalls[s][1].voice # synthCalls[r][1].voice

-----------------------------------------------------------------------------
(* C19, C20 *)

\* Thread t is inside process_voice.
Active(t) == workflow[t] \notin {"unstarted", "finished", "raised"}

\* C19: at most one process_voice workflow runs at any time, whatever the
\* sequence of clicks, because the record button is disabled while a workflow
\* is active; so two workflows never write temp_recording.wav, tts_output.wav
\* or the current voice model at the same time.
C19_OneWorkflowAtATime ==
    \A t, u \in Threads : t # u => ~(Active(t) /\ Active(u))

\* C20: every workflow that was started re-enables the record button in the
\* end, whatever the outcome of recording, transcription, voice loading and
\* synthesis: once the workflows have ended, one that raised included, the
\* button is not left disabled.
C20_ButtonEnabledAgain ==
    (/\ \E t \in Threads : workflow[t] \in {"finished", "raised"}
     /\ \A t \in Threads : ~Active(t))
        => record_button = "normal"

=============================================================================
